---- MODULE Spec2Model ----
(***************************************************************************)
(* A model of the color library (src/build.ts): the capability detector,   *)
(* the formatter closure with its replaceClose loop, and createColors.     *)
(*                                                                         *)
(* A JavaScript string is a sequence of one-character strings; the escape  *)
(* character 0x1B is the element ESC.  String indices are 0-based as in    *)
(* the source.  JavaScript booleans and undefined are the values JsTrue,   *)
(* JsFalse and Undef; environment values are Undef or a string.            *)
(***************************************************************************)
EXTENDS Integers, Sequences, FiniteSets

VARIABLES
    env,              \* process.env: NO_COLOR, FORCE_COLOR, TERM, CI
    argv,             \* process.argv: a sequence of arguments
    platform,         \* process.platform
    stdout,           \* process.stdout: Undef, or an object with or without isTTY
    pc,               \* "boot" before the module is loaded, "idle" between calls,
                      \* "loop" inside replaceClose's do-while, "ret" at its return
    isColorSupported, \* the module constant of line 39
    tables,           \* every table createColors has returned, the default export first
    built,            \* for each table, the argument it was built with
    base,             \* the text s typed by the caller
    hist,             \* the styles applied to s so far, innermost first
    text,             \* the current value: s, then B(s), then A(B(s))
    cur,              \* the style whose formatter is (or was last) running
    string,           \* the formatter's local `string`
    first,            \* the index the formatter's first search returned
    index,            \* replaceClose's `index`
    result,           \* replaceClose's `result`
    cursor,           \* replaceClose's `cursor`
    iters             \* iterations of the do-while in the current call

vars == << env, argv, platform, stdout, pc, isColorSupported, tables, built,
           base, hist, text, cur, string, first, index, result, cursor, iters >>

procVars == << env, argv, platform, stdout >>
loopVars == << string, first, index, result, cursor, iters >>

----------------------------------------------------------------------------
(* Bounds of the model.                                                    *)

\* characters of the text s the caller types
MaxInput == 6
\* characters of the expression: s plus the codes of the styles applied to it
MaxLen == 28
\* arguments on the command line the module is loaded with
MaxArgs == 2
\* arguments pushed after the module is loaded
MaxPushed == 1
\* tables alive at once
MaxTables == 2

----------------------------------------------------------------------------
(* JavaScript values.                                                      *)

Undef == "undefined"
JsTrue == "true"
JsFalse == "false"

\* ToBoolean: undefined, false and the empty string are falsy
Truthy(v) == v \notin {Undef, JsFalse, ""}

\* !!v
Bool(v) == IF Truthy(v) THEN JsTrue ELSE JsFalse

\* !v
Not(v) == IF Truthy(v) THEN JsFalse ELSE JsTrue

\* a && b and a || b return one of their operands
And(a, b) == IF Truthy(a) THEN b ELSE a
Or(a, b) == IF Truthy(a) THEN a ELSE b

\* a === b and a !== b on strings
StrictEq(a, b) == IF a = b THEN JsTrue ELSE JsFalse
StrictNe(a, b) == IF a = b THEN JsFalse ELSE JsTrue

Min(S) == CHOOSE x \in S : \A y \in S : x <= y
Clamp(i, lo, hi) == IF i < lo THEN lo ELSE IF i > hi THEN hi ELSE i

----------------------------------------------------------------------------
(* Strings.                                                                *)

ESC == "ESC"

DigitChars == << "0", "1", "2", "3", "4", "5", "6", "7", "8", "9" >>

\* the decimal digits of a code number below 1000
Digits(n) ==
    IF n < 10 THEN << DigitChars[n + 1] >>
    ELSE IF n < 100 THEN << DigitChars[(n \div 10) + 1], DigitChars[(n % 10) + 1] >>
    ELSE << DigitChars[(n \div 100) + 1], DigitChars[((n \div 10) % 10) + 1],
            DigitChars[(n % 10) + 1] >>

\* the literal "\x1b[<n>m"
Esc(n) == << ESC, "[" >> \o Digits(n) \o << "m" >>

\* String.prototype.indexOf(searchString, position)
indexOf(str, searchString, position) ==
    LET n == Len(str)
        m == Len(searchString)
        start == Clamp(position, 0, n)
        hits == { i \in start .. (n - m) : SubSeq(str, i + 1, i + m) = searchString }
    IN  IF hits = {} THEN -1 ELSE Min(hits)

\* String.prototype.substring(start, end): clamped, swapped when start > end
substring(str, start, end) ==
    LET a == Clamp(start, 0, Len(str))
        b == Clamp(end, 0, Len(str))
    IN  IF a <= b THEN SubSeq(str, a + 1, b) ELSE SubSeq(str, b + 1, a)

\* Array.prototype.includes
includes(arr, x) == \E i \in DOMAIN arr : arr[i] = x

\* String(input) and "" + input, on a text
String(input) == input

----------------------------------------------------------------------------
(* The capability detector, lines 32-45.                                   *)

\* (p.stdout || {}).isTTY
isTTY(out) == CASE out = "{isTTY:true}" -> JsTrue
                [] out = "{isTTY:false}" -> JsFalse
                [] OTHER -> Undef

ColorSupportNoTerm(e, a, plat, out) ==
    And(Not(Or(Bool(e.NO_COLOR), IF includes(a, "--no-color") THEN JsTrue ELSE JsFalse)),
        Or(Bool(e.FORCE_COLOR),
        Or(IF includes(a, "--color") THEN JsTrue ELSE JsFalse,
        Or(StrictEq(plat, "win32"),
        Or(isTTY(out),
           Bool(e.CI))))))

ColorSupport(e, a, plat, out) ==
    And(Not(Or(Bool(e.NO_COLOR), IF includes(a, "--no-color") THEN JsTrue ELSE JsFalse)),
        Or(Bool(e.FORCE_COLOR),
        Or(IF includes(a, "--color") THEN JsTrue ELSE JsFalse,
        Or(StrictEq(plat, "win32"),
        Or(And(isTTY(out), StrictNe(e.TERM, "dumb")),
           Bool(e.CI))))))

----------------------------------------------------------------------------
(* The formatter, lines 55-67, and replaceClose, lines 78-92.              *)

\* formatter(open, close, replace) returns a closure over its arguments
formatter(open, close, replace) ==
    [ fn |-> "formatter", open |-> open, close |-> close, replace |-> replace ]

\* () => String returns the global String whatever it is given
StringFn == [ fn |-> "String" ]

\* line 63: the first search starts at open.length
firstIndex(str, open, close) == indexOf(str, close, Len(open))

\* line 66
wrapPlainNoClose(open, str, close) == open \o str
wrapPlain(open, str, close) == open \o str \o close

\* line 65
wrapReplaced(open, replaced, close) == open \o replaced \o close

\* lines 87-89: one iteration of the do-while, on the loop's locals
loopBodyNoAdvance(str, close, replace, st) ==
    [ result |-> st.result \o substring(str, st.cursor, st.index) \o replace,
      cursor |-> st.index,
      index  |-> indexOf(str, close, st.index) ]

loopBodyDropsText(str, close, replace, st) ==
    [ result |-> st.result \o replace,
      cursor |-> st.index + Len(close),
      index  |-> indexOf(str, close, st.index + Len(close)) ]

loopBody(str, close, replace, st) ==
    [ result |-> st.result \o substring(str, st.cursor, st.index) \o replace,
      cursor |-> st.index + Len(close),
      index  |-> indexOf(str, close, st.index + Len(close)) ]

\* line 91
loopReturn(res, str, cur_) == res \o substring(str, cur_, Len(str))

\* replaceClose(string, close, replace, index), run to completion
RECURSIVE doWhile(_, _, _, _)
doWhile(str, close, replace, st) ==
    LET nx == loopBody(str, close, replace, st)
    IN  IF nx.index # -1 THEN doWhile(str, close, replace, nx)
        ELSE loopReturn(nx.result, str, nx.cursor)

replaceClose(str, close, replace, idx) ==
    doWhile(str, close, replace, [ result |-> << >>, cursor |-> 0, index |-> idx ])

\* a call of a table entry on an input, run to completion
Call(closure, input) ==
    IF closure.fn = "String" THEN String(input)
    ELSE LET str == String(input)
             idx == firstIndex(str, closure.open, closure.close)
         IN  IF idx # -1
             THEN wrapReplaced(closure.open,
                               replaceClose(str, closure.close, closure.replace, idx),
                               closure.close)
             ELSE wrapPlain(closure.open, str, closure.close)

----------------------------------------------------------------------------
(* createColors, lines 100-146.                                            *)

\* line 101: f = enabled ? formatter : () => String
alwaysFormatter(enabled) == "formatter"
pickFromModuleFlag(enabled) == IF Truthy(isColorSupported) THEN "formatter" ELSE "String"
pick(enabled) == IF Truthy(enabled) THEN "formatter" ELSE "String"

\* lines 105-106: the replacements of bold and dim
boldReplaceDefault == Esc(1)
boldReplace == Esc(22) \o Esc(1)
dimReplace == Esc(22) \o Esc(2)

\* the style names in the order of the table
StyleNames ==
    << "reset", "bold", "dim", "italic", "underline", "inverse", "hidden",
       "strikethrough", "black", "red", "green", "yellow", "blue", "magenta",
       "cyan", "white", "gray", "bgBlack", "bgRed", "bgGreen", "bgYellow",
       "bgBlue", "bgMagenta", "bgCyan", "bgWhite", "blackBright", "redBright",
       "greenBright", "yellowBright", "blueBright", "magentaBright",
       "cyanBright", "whiteBright", "bgBlackBright", "bgRedBright",
       "bgGreenBright", "bgYellowBright", "bgBlueBright", "bgMagentaBright",
       "bgCyanBright", "bgWhiteBright" >>

Styles == { StyleNames[i] : i \in DOMAIN StyleNames }

\* lines 104-144: the arguments each entry of the table passes to f
StyleArgs ==
    [ reset            |-> << Esc(0), Esc(0) >>,
      bold             |-> << Esc(1), Esc(22), boldReplace >>,
      dim              |-> << Esc(2), Esc(22), dimReplace >>,
      italic           |-> << Esc(3), Esc(23) >>,
      underline        |-> << Esc(4), Esc(24) >>,
      inverse          |-> << Esc(7), Esc(27) >>,
      hidden           |-> << Esc(8), Esc(28) >>,
      strikethrough    |-> << Esc(9), Esc(29) >>,
      black            |-> << Esc(30), Esc(39) >>,
      red              |-> << Esc(31), Esc(39) >>,
      green            |-> << Esc(32), Esc(39) >>,
      yellow           |-> << Esc(33), Esc(39) >>,
      blue             |-> << Esc(34), Esc(39) >>,
      magenta          |-> << Esc(35), Esc(39) >>,
      cyan             |-> << Esc(36), Esc(39) >>,
      white            |-> << Esc(37), Esc(39) >>,
      gray             |-> << Esc(90), Esc(39) >>,
      bgBlack          |-> << Esc(40), Esc(49) >>,
      bgRed            |-> << Esc(41), Esc(49) >>,
      bgGreen          |-> << Esc(42), Esc(49) >>,
      bgYellow         |-> << Esc(43), Esc(49) >>,
      bgBlue           |-> << Esc(44), Esc(49) >>,
      bgMagenta        |-> << Esc(45), Esc(49) >>,
      bgCyan           |-> << Esc(46), Esc(49) >>,
      bgWhite          |-> << Esc(47), Esc(49) >>,
      blackBright      |-> << Esc(90), Esc(39) >>,
      redBright        |-> << Esc(91), Esc(39) >>,
      greenBright      |-> << Esc(92), Esc(39) >>,
      yellowBright     |-> << Esc(93), Esc(39) >>,
      blueBright       |-> << Esc(94), Esc(39) >>,
      magentaBright    |-> << Esc(95), Esc(39) >>,
      cyanBright       |-> << Esc(96), Esc(39) >>,
      whiteBright      |-> << Esc(97), Esc(39) >>,
      bgBlackBright    |-> << Esc(100), Esc(49) >>,
      bgRedBright      |-> << Esc(101), Esc(49) >>,
      bgGreenBright    |-> << Esc(102), Esc(49) >>,
      bgYellowBright   |-> << Esc(103), Esc(49) >>,
      bgBlueBright     |-> << Esc(104), Esc(49) >>,
      bgMagentaBright  |-> << Esc(105), Esc(49) >>,
      bgCyanBright     |-> << Esc(106), Esc(49) >>,
      bgWhiteBright    |-> << Esc(107), Esc(49) >> ]

\* f(open, close, replace = open) for f = formatter: the third argument defaults
formatterOf(args) ==
    formatter(args[1], args[2], IF Len(args) >= 3 THEN args[3] ELSE args[1])

\* lines 100-103: the table keeps `enabled` and the f chosen from it
createColors(enabled) ==
    [ isColorSupported |-> enabled, f |-> pick(enabled) ]

\* the closures f returns for the entries, when f is formatter
Closures[s \in Styles] == formatterOf(StyleArgs[s])

\* the entry of a table for a style: f applied to the style's arguments
Entry(table, s) ==
    IF table.f = "formatter" THEN Closures[s] ELSE StringFn

\* the codes of a style
Open(s) == Closures[s].open
Close(s) == Closures[s].close
Replace(s) == Closures[s].replace

----------------------------------------------------------------------------
(* The process: load, typing a text, calling the exported formatters.      *)

EnvNames == { "NO_COLOR", "FORCE_COLOR", "TERM", "CI" }

\* a terminal session with nothing set, and the same with NO_COLOR=1
SnapshotTTY ==
    [ env |-> [ NO_COLOR |-> Undef, FORCE_COLOR |-> Undef, TERM |-> "xterm", CI |-> Undef ],
      argv |-> << >>, platform |-> "linux", stdout |-> "{isTTY:true}" ]

SnapshotNoColor ==
    [ env |-> [ NO_COLOR |-> "1", FORCE_COLOR |-> Undef, TERM |-> "xterm", CI |-> Undef ],
      argv |-> << >>, platform |-> "linux", stdout |-> "{isTTY:true}" ]

Snapshots == { SnapshotTTY, SnapshotNoColor }

\* what a caller types: a printable character, or one of the codes
Tokens == { << "x" >>, Esc(1) } \cup { Close(s) : s \in Styles }

NoLoop(str) ==
    /\ string = str
    /\ first = -1
    /\ index = -1
    /\ result = << >>
    /\ cursor = 0
    /\ iters = 0

\* the state once the module is loaded: lines 32-45 and the export of line 238
Loaded(snap) ==
    /\ env = snap.env
    /\ argv = snap.argv
    /\ platform = snap.platform
    /\ stdout = snap.stdout
    /\ pc = "idle"
    /\ isColorSupported = ColorSupport(snap.env, snap.argv, snap.platform, snap.stdout)
    /\ tables = << createColors(ColorSupport(snap.env, snap.argv, snap.platform, snap.stdout)) >>
    /\ built = << ColorSupport(snap.env, snap.argv, snap.platform, snap.stdout) >>
    /\ base = << >>
    /\ hist = << >>
    /\ text = << >>
    /\ cur = "reset"
    /\ NoLoop(<< >>)

Init == \E snap \in Snapshots : Loaded(snap)

\* the characters of the expression built so far
RECURSIVE Weight(_)
Weight(h) == IF h = << >> THEN 0
             ELSE Len(Open(Head(h))) + Len(Close(Head(h))) + Weight(Tail(h))

Fits(s) == Len(base) + Weight(hist) + Len(Open(s)) + Len(Close(s)) <= MaxLen

\* the caller extends the text s before any style is applied
Type(tok) ==
    /\ pc = "idle"
    /\ hist = << >>
    /\ Len(base) + Len(tok) <= MaxInput
    /\ base' = base \o tok
    /\ text' = base \o tok
    /\ UNCHANGED << procVars, pc, isColorSupported, tables, built, hist, cur, loopVars >>

\* a formatter of a table built with color off: String(input)
CallString(s) ==
    /\ pc = "idle"
    /\ Fits(s)
    /\ Entry(tables[1], s).fn = "String"
    /\ cur' = s
    /\ text' = String(text)
    /\ hist' = Append(hist, s)
    /\ string' = text /\ first' = -1 /\ index' = -1
    /\ result' = << >> /\ cursor' = 0 /\ iters' = 0
    /\ UNCHANGED << procVars, pc, isColorSupported, tables, built, base >>

\* lines 61-66 when the first search finds nothing: open + string + close
CallPlain(s) ==
    /\ pc = "idle"
    /\ Fits(s)
    /\ Entry(tables[1], s).fn = "formatter"
    /\ LET c == Entry(tables[1], s)
           str == String(text)
       IN  /\ firstIndex(str, c.open, c.close) = -1
           /\ cur' = s
           /\ string' = str
           /\ first' = -1 /\ index' = -1
           /\ result' = << >> /\ cursor' = 0 /\ iters' = 0
           /\ text' = wrapPlain(c.open, str, c.close)
           /\ hist' = Append(hist, s)
    /\ UNCHANGED << procVars, pc, isColorSupported, tables, built, base >>

\* lines 61-65 when the first search finds a close: replaceClose is entered
CallReplace(s) ==
    /\ pc = "idle"
    /\ Fits(s)
    /\ Entry(tables[1], s).fn = "formatter"
    /\ LET c == Entry(tables[1], s)
           str == String(text)
       IN  /\ firstIndex(str, c.open, c.close) # -1
           /\ cur' = s
           /\ string' = str
           /\ first' = firstIndex(str, c.open, c.close)
           /\ index' = firstIndex(str, c.open, c.close)
           /\ result' = << >> /\ cursor' = 0 /\ iters' = 0
           /\ pc' = "loop"
    /\ UNCHANGED << procVars, isColorSupported, tables, built, base, hist, text >>

\* lines 86-90: one iteration, and the test of the while
ReplaceStep ==
    /\ pc = "loop"
    /\ LET c == Entry(tables[1], cur)
           nx == loopBody(string, c.close, c.replace,
                          [ result |-> result, cursor |-> cursor, index |-> index ])
       IN  /\ result' = nx.result
           /\ cursor' = nx.cursor
           /\ index' = nx.index
           /\ iters' = iters + 1
           /\ pc' = IF nx.index # -1 THEN "loop" ELSE "ret"
    /\ UNCHANGED << procVars, isColorSupported, tables, built, base, hist, text,
                    cur, string, first >>

\* line 91, then line 65: open + replaceClose(...) + close
Return ==
    /\ pc = "ret"
    /\ LET c == Entry(tables[1], cur)
       IN  text' = wrapReplaced(c.open, loopReturn(result, string, cursor), c.close)
    /\ hist' = Append(hist, cur)
    /\ pc' = "idle"
    /\ UNCHANGED << procVars, isColorSupported, tables, built, base, cur, loopVars >>

Next ==
    \/ \E tok \in Tokens : Type(tok)
    \/ \E s \in Styles : CallString(s)
    \/ \E s \in Styles : CallPlain(s)
    \/ \E s \in Styles : CallReplace(s)
    \/ ReplaceStep
    \/ Return

Spec == Init /\ [][Next]_vars

FairSpec == Spec /\ WF_vars(ReplaceStep) /\ WF_vars(Return)

----------------------------------------------------------------------------
(* Vocabulary of the properties.  Nothing below is used by the actions.    *)

\* the escape-code table as documented: the number of each style's open and close
StyleIndex(s) == CHOOSE i \in DOMAIN StyleNames : StyleNames[i] = s

DocOpenNumber(s) ==
    LET i == StyleIndex(s)
    IN  CASE i = 1 -> 0
          [] i \in 2 .. 5 -> i - 1
          [] i \in 6 .. 8 -> i + 1
          [] i \in 9 .. 16 -> 30 + (i - 9)
          [] i = 17 -> 90
          [] i \in 18 .. 25 -> 40 + (i - 18)
          [] i \in 26 .. 33 -> 90 + (i - 26)
          [] i \in 34 .. 41 -> 100 + (i - 34)

DocCloseNumber(s) ==
    LET i == StyleIndex(s)
    IN  CASE i = 1 -> 0
          [] i \in 2 .. 3 -> 22
          [] i \in 4 .. 8 -> 20 + DocOpenNumber(s)
          [] i \in 9 .. 17 -> 39
          [] i \in 18 .. 25 -> 49
          [] i \in 26 .. 33 -> 39
          [] i \in 34 .. 41 -> 49

DocOpen(s) == Esc(DocOpenNumber(s))
DocClose(s) == Esc(DocCloseNumber(s))
DocReplace(s) == IF s \in {"bold", "dim"} THEN DocClose(s) \o DocOpen(s) ELSE DocOpen(s)

OccursAt(str, c, i) == i + Len(c) <= Len(str) /\ SubSeq(str, i + 1, i + Len(c)) = c
Occurs(str, c) == \E i \in 0 .. Len(str) : OccursAt(str, c, i)
EscapeFree(str) == \A i \in DOMAIN str : str[i] # ESC
Drop(str, n) == SubSeq(str, n + 1, Len(str))

\* str with every occurrence of c, left to right, replaced by r
RECURSIVE ReplaceAll(_, _, _)
ReplaceAll(str, c, r) ==
    IF str = << >> THEN << >>
    ELSE IF OccursAt(str, c, 0) THEN r \o ReplaceAll(Drop(str, Len(c)), c, r)
    ELSE << Head(str) >> \o ReplaceAll(Tail(str), c, r)

\* the number of non-overlapping occurrences of c in str
RECURSIVE NonOverlapping(_, _)
NonOverlapping(str, c) ==
    IF str = << >> THEN 0
    ELSE IF OccursAt(str, c, 0) THEN 1 + NonOverlapping(Drop(str, Len(c)), c)
    ELSE NonOverlapping(Tail(str), c)

\* out is str with exactly k of its occurrences of c replaced by r and every
\* other character copied in order
RECURSIVE IsSubstitution(_, _, _, _, _)
IsSubstitution(str, out, c, r, k) ==
    IF str = << >> THEN out = << >> /\ k = 0
    ELSE \/ /\ out # << >>
            /\ Head(out) = Head(str)
            /\ IsSubstitution(Tail(str), Tail(out), c, r, k)
         \/ /\ k > 0
            /\ OccursAt(str, c, 0)
            /\ OccursAt(out, r, 0)
            /\ IsSubstitution(Drop(str, Len(c)), Drop(out, Len(r)), c, r, k - 1)

ColorOn == tables[1].isColorSupported = JsTrue
ColorOff == tables[1].isColorSupported = JsFalse

\* a call has returned: cur is its style, string its input, text its output
Returned == pc = "idle" /\ hist # << >>

\* the expression A(B(s)) has been evaluated
Nested(B, A) == pc = "idle" /\ hist = << B, A >>

\* a call run step by step returns what the call run to completion returns
CallAgrees ==
    Returned => text = Call(Entry(tables[1], cur), string)

----------------------------------------------------------------------------
(* C1: with color on, a formatter called on a text in which its close does *)
(* not occur returns open + text + close, with the documented codes; and   *)
(* bold(red(s)) is ESC[1m ESC[31m s ESC[39m ESC[22m for escape-free s.     *)
C1_SimpleWrap ==
    /\ (ColorOn /\ Returned /\ ~Occurs(string, DocClose(cur)))
          => text = DocOpen(cur) \o string \o DocClose(cur)
    /\ (ColorOn /\ Nested("red", "bold") /\ EscapeFree(base))
          => text = Esc(1) \o Esc(31) \o base \o Esc(39) \o Esc(22)

C1_Witness ==
    /\ ColorOn
    /\ Nested("red", "bold")
    /\ base = << "x", "x" >>
    /\ string = Esc(31) \o << "x", "x" >> \o Esc(39)
    /\ text = Esc(1) \o Esc(31) \o << "x", "x" >> \o Esc(39) \o Esc(22)

(* C2: a table built with enabled = false returns every input unchanged,   *)
(* escape sequences in it included; no call enters the resequencer.        *)
C2_DisabledIdentity ==
    ColorOff => /\ pc = "idle"
                /\ text = base
                /\ hist # << >> => (text = string /\ iters = 0)

C2_Witness ==
    /\ ColorOff
    /\ Nested("reset", "bold")
    /\ base = Esc(22)
    /\ text = Esc(22)

----------------------------------------------------------------------------
(* C4: when the first search (from open.length) finds a close, every       *)
(* occurrence of close in the input is replaced, each once, and the result *)
(* is wrapped in open and close.                                           *)
C4_EveryCloseReplaced ==
    (ColorOn /\ Returned /\ first # -1)
        => text = Open(cur) \o ReplaceAll(string, Close(cur), Replace(cur)) \o Close(cur)

(* C5: in A(B(s)) with distinct closes, every occurrence of A's close in   *)
(* B(s) is rewritten to A's replacement, so that (where the replacement    *)
(* does not itself hold the close) none is left before the trailing close. *)
C5_NestingInvariant ==
    \A A \in Styles, B \in Styles :
        (ColorOn /\ Nested(B, A) /\ Close(A) # Close(B))
            => /\ text = Open(A) \o ReplaceAll(string, Close(A), Replace(A)) \o Close(A)
               /\ ~Occurs(Replace(A), Close(A))
                    => ~Occurs(SubSeq(text, 1, Len(text) - Len(Close(A))), Close(A))

(* C6: for A and B sharing a close, with replacement = open, and s free of *)
(* escapes, A(B(s)) = openA + openB + s + openA + closeA.                  *)
C6_SameCloseNesting ==
    \A A \in Styles, B \in Styles :
        (/\ ColorOn
         /\ Nested(B, A)
         /\ Close(A) = Close(B)
         /\ Replace(A) = Open(A)
         /\ Replace(B) = Open(B)
         /\ EscapeFree(base))
            => text = Open(A) \o Open(B) \o base \o Open(A) \o Close(A)

----------------------------------------------------------------------------
(* C7: bold(dim(s)) = ESC[1m ESC[2m s ESC[22m ESC[1m ESC[22m and           *)
(* dim(bold(s)) = ESC[2m ESC[1m s ESC[22m ESC[2m ESC[22m, s escape-free.   *)
C7_BoldDim ==
    /\ (ColorOn /\ Nested("dim", "bold") /\ EscapeFree(base))
          => text = Esc(1) \o Esc(2) \o base \o Esc(22) \o Esc(1) \o Esc(22)
    /\ (ColorOn /\ Nested("bold", "dim") /\ EscapeFree(base))
          => text = Esc(2) \o Esc(1) \o base \o Esc(22) \o Esc(2) \o Esc(22)

C7_Witness ==
    /\ ColorOn
    /\ Nested("dim", "bold")
    /\ base = << "x" >>
    /\ iters = 1

----------------------------------------------------------------------------
(* The do-while of replaceClose: what holds inside it, and of each step.   *)
LoopInvariant ==
    /\ pc = "loop" => /\ index # -1
                      /\ cursor <= index
                      /\ OccursAt(string, Close(cur), index)
                      /\ iters < NonOverlapping(string, Close(cur))
    /\ pc = "ret" => /\ index = -1
                     /\ iters >= 1
                     /\ iters <= NonOverlapping(string, Close(cur))
                     /\ cursor <= Len(string)

LoopStep ==
    pc = "loop" =>
        /\ pc' \in {"loop", "ret"}
        /\ string' = string
        /\ iters' = iters + 1
        /\ cursor' = index + Len(Close(cur))
        /\ cursor' > cursor
        /\ cursor' <= Len(string)
        /\ index' # -1 => index' >= cursor' /\ OccursAt(string, Close(cur), index')
        /\ \A i \in cursor' .. Len(string) :
              OccursAt(string, Close(cur), i) => (index' # -1 /\ index' <= i)

(* C8: the do-while of replaceClose terminates: each iteration moves the   *)
(* cursor strictly forward, past the match, within the input; the next     *)
(* search starts at the cursor, in the input and not in the result; the    *)
(* iterations are at most the non-overlapping occurrences of close.        *)
C8_LoopTerminates ==
    /\ []LoopInvariant
    /\ [][LoopStep]_vars
    /\ (pc = "loop") ~> (pc = "idle")

C8_Witness ==
    /\ Returned
    /\ iters = 2
    /\ cursor = Len(string)

----------------------------------------------------------------------------
(* C10: an enabled formatter copies its input between open and close,      *)
(* substituting only occurrences of its own close by its replacement; the  *)
(* length follows; reset returns open + input + close.                     *)
C10_OnlyCloseRewritten ==
    (ColorOn /\ Returned) =>
        LET o == DocOpen(cur)
            c == DocClose(cur)
            r == DocReplace(cur)
            mid == SubSeq(text, Len(o) + 1, Len(text) - Len(c))
        IN  /\ Len(text) >= Len(o) + Len(c)
            /\ SubSeq(text, 1, Len(o)) = o
            /\ Drop(text, Len(text) - Len(c)) = c
            /\ IsSubstitution(string, mid, c, r, iters)
            /\ Len(text) = Len(o) + Len(string) + Len(c) + iters * (Len(r) - Len(c))
            /\ cur = "reset" => text = o \o string \o c

C10_Witness ==
    /\ ColorOn
    /\ Returned
    /\ iters = 1
    /\ NonOverlapping(string, Close(cur)) = 2
    /\ Len(text) = Len(string) + Len(Open(cur)) + Len(Open(cur))

----------------------------------------------------------------------------
(* The detector on its own: every process the module can be loaded in.     *)

EnvValues == { Undef, "", "0", "1" }
TermValues == { Undef, "dumb", "xterm" }
Platforms == { "win32", "linux" }
Stdouts == { Undef, "{}", "{isTTY:true}", "{isTTY:false}" }
Flags == { "--no-color", "--color", "--colour" }

RECURSIVE SeqsUpTo(_, _)
SeqsUpTo(S, n) ==
    IF n = 0 THEN { << >> }
    ELSE SeqsUpTo(S, n - 1) \cup
         { Append(q, x) : q \in { r \in SeqsUpTo(S, n - 1) : Len(r) = n - 1 }, x \in S }

InitDetect ==
    /\ env \in [ EnvNames -> EnvValues \cup TermValues ]
    /\ env.NO_COLOR \in EnvValues
    /\ env.FORCE_COLOR \in EnvValues
    /\ env.CI \in EnvValues
    /\ env.TERM \in TermValues
    /\ argv \in SeqsUpTo(Flags, MaxArgs)
    /\ platform \in Platforms
    /\ stdout \in Stdouts
    /\ pc = "boot"
    /\ isColorSupported = Undef
    /\ tables = << >>
    /\ built = << >>
    /\ base = << >>
    /\ hist = << >>
    /\ text = << >>
    /\ cur = "reset"
    /\ NoLoop(<< >>)

\* the module is evaluated: lines 32-45, then the default table of line 238
Load ==
    /\ pc = "boot"
    /\ isColorSupported' = ColorSupport(env, argv, platform, stdout)
    /\ tables' = << createColors(ColorSupport(env, argv, platform, stdout)) >>
    /\ built' = << ColorSupport(env, argv, platform, stdout) >>
    /\ pc' = "idle"
    /\ UNCHANGED << procVars, base, hist, text, cur, loopVars >>

NextDetect == Load

SpecDetect == InitDetect /\ [][NextDetect]_vars

IsSet(v) == v # Undef /\ v # ""
Has(arr, x) == x \in { arr[i] : i \in DOMAIN arr }

Disabling == IsSet(env.NO_COLOR) \/ Has(argv, "--no-color")

Enabling ==
    \/ IsSet(env.FORCE_COLOR)
    \/ Has(argv, "--color")
    \/ platform = "win32"
    \/ (stdout = "{isTTY:true}" /\ env.TERM # "dumb")
    \/ IsSet(env.CI)

(* C3: the detector's result is false whenever NO_COLOR is set or          *)
(* --no-color is given, otherwise true exactly when one of FORCE_COLOR,    *)
(* --color, Windows, (TTY and TERM not dumb), CI holds; it is always a     *)
(* boolean, also when stdout or isTTY is absent.                           *)
C3_DetectorTruthTable ==
    pc # "boot" =>
        /\ isColorSupported \in { JsTrue, JsFalse }
        /\ Disabling => isColorSupported = JsFalse
        /\ ~Disabling => (isColorSupported = JsTrue <=> Enabling)

C3_Witness ==
    /\ pc = "idle"
    /\ env.NO_COLOR = "1"
    /\ env.FORCE_COLOR = "1"
    /\ env.CI = "1"
    /\ argv = << "--color" >>
    /\ stdout = Undef
    /\ isColorSupported = JsFalse

----------------------------------------------------------------------------
(* Tables over the life of the process: the environment changes, further   *)
(* tables are built, formatters of any table are called.                   *)

TableInputs == { << "x" >>, Esc(39) }

\* process.env[k] = v, or delete process.env[k]
SetEnv(k, v) ==
    /\ pc = "idle"
    /\ env[k] # v
    /\ env' = [ env EXCEPT ![k] = v ]
    /\ UNCHANGED << argv, platform, stdout, pc, isColorSupported, tables, built,
                    base, hist, text, cur, loopVars >>

\* process.argv.push(a)
PushArg(a) ==
    /\ pc = "idle"
    /\ Len(argv) < MaxPushed
    /\ argv' = Append(argv, a)
    /\ UNCHANGED << env, platform, stdout, pc, isColorSupported, tables, built,
                    base, hist, text, cur, loopVars >>

\* createColors(enabled); without an argument enabled is isColorSupported
CreateColors(arg) ==
    /\ pc = "idle"
    /\ Len(tables) < MaxTables
    /\ LET enabled == IF arg = Undef THEN isColorSupported ELSE arg
       IN  /\ tables' = Append(tables, createColors(enabled))
           /\ built' = Append(built, enabled)
    /\ UNCHANGED << procVars, pc, isColorSupported, base, hist, text, cur, loopVars >>

\* tables[t][s](input), run to completion
Invoke(t, s, input) ==
    /\ pc = "idle"
    /\ base' = input
    /\ hist' = << s >>
    /\ cur' = s
    /\ text' = Call(Entry(tables[t], s), input)
    /\ UNCHANGED << procVars, pc, isColorSupported, tables, built, loopVars >>

NextTables ==
    \/ \E k \in { "NO_COLOR", "FORCE_COLOR" }, v \in { Undef, "1" } : SetEnv(k, v)
    \/ \E a \in { "--no-color", "--color" } : PushArg(a)
    \/ \E arg \in { Undef, JsTrue, JsFalse } : CreateColors(arg)
    \/ \E t \in DOMAIN tables, s \in Styles, input \in TableInputs : Invoke(t, s, input)

SpecTables == Init /\ [][NextTables]_vars

\* what a table built with `enabled` must return for an input of TableInputs
Expected(enabled, s, input) ==
    IF enabled = JsTrue THEN DocOpen(s) \o input \o DocClose(s) ELSE input

TablesAsBuilt ==
    /\ tables # << >>
    /\ DOMAIN built = DOMAIN tables
    /\ built[1] = isColorSupported
    /\ \A t \in DOMAIN tables :
          /\ tables[t].isColorSupported = built[t]
          /\ \A s \in Styles, input \in TableInputs :
                Call(Entry(tables[t], s), input) = Expected(built[t], s, input)

TablesKept ==
    /\ isColorSupported' = isColorSupported
    /\ \A t \in DOMAIN tables :
          /\ t \in DOMAIN tables'
          /\ built'[t] = built[t]
          /\ tables'[t].isColorSupported = tables[t].isColorSupported
          /\ tables'[t].f = tables[t].f

(* C9: the capability flag is computed once, and whatever happens later    *)
(* (the environment or the arguments change, tables are built, formatters  *)
(* are called) every table keeps the isColorSupported it was built with    *)
(* and each formatter keeps its output for each input.                     *)
C9_TablesFixed == []TablesAsBuilt /\ [][TablesKept]_vars

C9_Witness ==
    /\ built = << JsTrue, JsFalse >>
    /\ ColorSupport(env, argv, platform, stdout) = JsFalse
    /\ argv = << "--no-color" >>
    /\ hist = << "red" >>
    /\ base = << "x" >>
    /\ text = Esc(31) \o << "x" >> \o Esc(39)

====
